---- MODULE Spec2Model ----
(***************************************************************************)
(* Model of examples/umbrella-sampling-pmf/umbrella-sampling-kldiverge.py  *)
(*                                                                         *)
(* Numbers: the script works on float64; the model works on integers.      *)
(* Angles are whole degrees, spring constants are even integers (so that   *)
(* K_k/2.0 is exact), temperatures are 1 or 2 in units where 1/kB is 2,    *)
(* so every reduced energy of the script is an exact integer here.         *)
(***************************************************************************)
EXTENDS Integers, Sequences, FiniteSets

\* ------------------------------------------------------------------ bounds
\* number of umbrellas (26 in the script)
K == 2
\* maximum number of snapshots per simulation (501 in the script)
N_max == 2
\* longest methods list the method loop is run on
MaxMethods == 3
\* iteration budget handed to the sampler (10000 in the script)
niterations == 5

\* ------------------------------------------------------------ input domains
\* spring centres a line of centers.dat may hold (degrees)
Centres == {90, 800}
\* spring constants, already in kJ/mol/deg**2
Springs == {2, 4}
\* temperatures of centers.dat (third token) or the default
Temps == {1, 2}
\* raw torsion values of a prod<k>_dihed.xvg line (tokens[1])
RawChi == {-541, 0, 180}
\* tokens[2] - tokens[1] of a prod<k>_energies.xvg line
EnergyDiffs == {-1, 1}

Windows == 0 .. (K - 1)
Slots == 0 .. (N_max - 1)

\* ------------------------------------------------------------------ helpers
Abs(x) == IF x < 0 THEN -x ELSE x
Min2(a, b) == IF a <= b THEN a ELSE b
SetMin(S) == CHOOSE m \in S : \A x \in S : m <= x
SetMax(S) == CHOOSE m \in S : \A x \in S : x <= m
SeqsUpTo(S, m) == UNION {[1 .. j -> S] : j \in 0 .. m}
\* the j-th smallest (from 0) element of a set of integers: indices[j]
Nth(I, j) == CHOOSE i \in I : Cardinality({x \in I : x < i}) = j

\* 1/kB in the model's units
InvkB == 2
\* beta_k = 1.0/(kB*T_k)
Beta(T) == InvkB \div T

VARIABLES
    pc,        \* position of the script
    chi0_k,    \* spring centre of umbrella k
    K_k,       \* spring constant of umbrella k
    T_k,       \* temperature of umbrella k
    N_k,       \* number of snapshots of umbrella k
    chi_kn,    \* torsion of snapshot n of umbrella k
    u_kn,      \* reduced energy without restraint of snapshot n of umbrella k
    u_kln,     \* reduced energy of snapshot n of umbrella k evaluated at umbrella l
    k,         \* window loop index of the read loop
    n,         \* snapshot counter of the parse loop
    chi,       \* torsion value being wrapped
    lines,     \* data lines of the file last read
    error,     \* the exception that ended the run, "none" while it runs
    methods,   \* the methods list
    mi,        \* number of methods the method loop has taken from the list
    method,    \* loop variable of the method loop
    pmf,       \* what the PMF object holds: the kind of fit and the iteration that made it
    f_i_kde,   \* kde profile saved for initializing splines, of type "None" before
    spline_parameters,  \* the dict of that name, [unbound |-> TRUE] before the first spline method
    yout,      \* the dict of that name: tag -> profile
    printed,   \* the (tag, profile) tables printed so far
    sampled,   \* arguments and estimator state of the SampleDistribution call
    band,      \* profile the credible band is drawn around
    mc_state,  \* state of the sampler's state machine
    budget,    \* iteration budget of the running chain
    sample_every,  \* thinning interval of the running chain
    nproposed, \* proposals made so far
    current,   \* most recently accepted state (0 is the fitted spline)
    proposal,  \* the proposal under evaluation: its number and the state it perturbs
    chain      \* recorded samples

dataVars == <<pc, error, chi0_k, K_k, T_k, N_k, chi_kn, u_kn, u_kln, k, n, chi, lines>>
methodVars == <<methods, mi, method, pmf, f_i_kde, spline_parameters, yout, printed, sampled, band>>
mcVars == <<mc_state, budget, sample_every, nproposed, current, proposal, chain>>
fileVars == <<chi0_k, K_k, T_k, N_k, chi_kn, u_kn, u_kln, k, n, chi, lines>>
vars == <<dataVars, methodVars, mcVars>>

beta_k == [w \in Windows |-> Beta(T_k[w])]
DifferentTemperatures ==
    SetMin({T_k[w] : w \in Windows}) /= SetMax({T_k[w] : w \in Windows})

ZeroKN == [w \in Windows |-> [s \in Slots |-> 0]]

\* ------------------------------------------------- reading and wrapping data
\* state after centers.dat is parsed and before the first window is read
DataInit ==
    /\ pc = "open"
    /\ error = "none"
    /\ chi0_k \in [Windows -> Centres]
    /\ K_k \in [Windows -> Springs]
    /\ T_k \in [Windows -> Temps]
    /\ N_k = [w \in Windows |-> 0]
    /\ chi_kn = ZeroKN
    /\ u_kn = ZeroKN
    /\ u_kln = <<>>
    /\ k = 0
    /\ n = 0
    /\ chi = 0
    /\ lines = <<>>

\* infile.readlines() of prod<k>_dihed.xvg; n = 0
OpenTorsion ==
    /\ pc = "open"
    /\ \E ls \in SeqsUpTo(RawChi, N_max) : lines' = ls
    /\ n' = 0
    /\ pc' = "parse"
    /\ UNCHANGED <<error, chi0_k, K_k, T_k, N_k, chi_kn, u_kn, u_kln, k, chi, methodVars, mcVars>>

\* next data line: chi = float(tokens[1])
ParseLine ==
    /\ pc = "parse"
    /\ n < Len(lines)
    /\ chi' = lines[n + 1]
    /\ pc' = "wrap_lo"
    /\ UNCHANGED <<error, chi0_k, K_k, T_k, N_k, chi_kn, u_kn, u_kln, k, n, lines, methodVars, mcVars>>

\* loop test of while(chi < -180.0)
BelowRange(x) == x < -180
\* the upper loop test written with > for >=
AboveRange_strict(x) == x > 180
\* loop test of while(chi >= +180.0)
AboveRange(x) == x >= 180

\* while(chi < -180.0): chi += 360.0
WrapUp ==
    /\ pc = "wrap_lo"
    /\ BelowRange(chi)
    /\ chi' = chi + 360
    /\ UNCHANGED <<error, pc, chi0_k, K_k, T_k, N_k, chi_kn, u_kn, u_kln, k, n, lines, methodVars, mcVars>>

WrapUpExit ==
    /\ pc = "wrap_lo"
    /\ ~BelowRange(chi)
    /\ pc' = "wrap_hi"
    /\ UNCHANGED <<error, chi0_k, K_k, T_k, N_k, chi_kn, u_kn, u_kln, k, n, chi, lines, methodVars, mcVars>>

\* while(chi >= +180.0): chi -= 360.0
WrapDown ==
    /\ pc = "wrap_hi"
    /\ AboveRange(chi)
    /\ chi' = chi - 360
    /\ UNCHANGED <<error, pc, chi0_k, K_k, T_k, N_k, chi_kn, u_kn, u_kln, k, n, lines, methodVars, mcVars>>

\* chi_kn[k,n] = chi; n += 1
StoreChi ==
    /\ pc = "wrap_hi"
    /\ ~AboveRange(chi)
    /\ chi_kn' = [chi_kn EXCEPT ![k][n] = chi]
    /\ n' = n + 1
    /\ pc' = "parse"
    /\ UNCHANGED <<error, chi0_k, K_k, T_k, N_k, u_kn, u_kln, k, chi, lines, methodVars, mcVars>>

\* end of the parse loop: N_k[k] = n
EndParse ==
    /\ pc = "parse"
    /\ n >= Len(lines)
    /\ N_k' = [N_k EXCEPT ![k] = n]
    /\ pc' = IF DifferentTemperatures THEN "energies" ELSE "correlate"
    /\ UNCHANGED <<error, chi0_k, K_k, T_k, chi_kn, u_kn, u_kln, k, n, chi, lines, methodVars, mcVars>>

\* the energies file of window k: u_kn[k,n] = beta_k[k] * (tokens[2] - tokens[1])
ReadEnergies ==
    /\ pc = "energies"
    /\ \E ls \in [1 .. N_k[k] -> EnergyDiffs] :
          /\ lines' = ls
          /\ u_kn' = [u_kn EXCEPT ![k] =
                         [s \in Slots |-> IF s < N_k[k]
                                          THEN beta_k[k] * ls[s + 1]
                                          ELSE u_kn[k][s]]]
    /\ n' = N_k[k]
    /\ pc' = "correlate"
    /\ UNCHANGED <<error, chi0_k, K_k, T_k, N_k, chi_kn, u_kln, k, chi, methodVars, mcVars>>

\* row[0:len(indices)] = row[indices]
SubsampleRow(row, I) ==
    [s \in Slots |-> IF s < Cardinality(I) THEN row[Nth(I, s)] ELSE row[s]]

\* index sets timeseries.subsampleCorrelatedData may return for a series of
\* length len: increasing indices into the series, at least one when the series
\* is not empty
SubsampleIndices(len) ==
    {I \in SUBSET (0 .. (len - 1)) : len > 0 => I /= {}}

\* indices = timeseries.subsampleCorrelatedData(...); subsample data; next window
Subsample ==
    /\ pc = "correlate"
    /\ \E I \in SubsampleIndices(N_k[k]) :
          /\ N_k' = [N_k EXCEPT ![k] = Cardinality(I)]
          /\ u_kn' = [u_kn EXCEPT ![k] = SubsampleRow(u_kn[k], I)]
          /\ chi_kn' = [chi_kn EXCEPT ![k] = SubsampleRow(chi_kn[k], I)]
    /\ IF k + 1 < K
       THEN /\ k' = k + 1
            /\ pc' = "open"
       ELSE /\ k' = k
            /\ pc' = "allocate"
    /\ UNCHANGED <<error, chi0_k, K_k, T_k, u_kln, n, chi, lines, methodVars, mcVars>>

\* timeseries.statisticalInefficiency raises (the script has no handler)
CorrelationFails ==
    /\ pc = "correlate"
    /\ pc' = "aborted"
    /\ error' = "ParameterError"
    /\ UNCHANGED <<chi0_k, K_k, T_k, N_k, chi_kn, u_kn, u_kln, k, n, chi, lines, methodVars, mcVars>>

\* --------------------------------------------------- reduced-energy matrix
\* N_max = np.max(N_k); u_kln = np.zeros([K,K,N_max]); u_kn -= u_kn.min()
Allocate ==
    /\ pc = "allocate"
    /\ u_kln' = [w \in Windows |-> [l \in Windows |->
                    [s \in 0 .. (SetMax({N_k[v] : v \in Windows}) - 1) |-> 0]]]
    /\ LET lo == SetMin({u_kn[w][s] : w \in Windows, s \in Slots})
       IN u_kn' = [w \in Windows |-> [s \in Slots |-> u_kn[w][s] - lo]]
    /\ pc' = "matrix"
    /\ UNCHANGED <<error, chi0_k, K_k, T_k, N_k, chi_kn, k, n, chi, lines, methodVars, mcVars>>

\* dchi = chi_kn[k,n] - chi0_k; if (abs(dchi[l]) > 180.0): dchi[l] = 360.0 - abs(dchi[l])
MatrixDchi(x, l) ==
    LET dchi == x - chi0_k[l]
    IN IF Abs(dchi) > 180 THEN 360 - Abs(dchi) ELSE dchi

\* the entry computed from the snapshot of row l instead of row k
MatrixEntry_rowl(w, l, s) ==
    u_kn[w][s]
      + beta_k[w] * (K_k[l] \div 2) * MatrixDchi(chi_kn[l][s], l) * MatrixDchi(chi_kn[l][s], l)

\* u_kln[k,:,n] = u_kn[k,n] + beta_k[k] * (K_k/2.0) * dchi**2, at column l
MatrixEntry(w, l, s) ==
    u_kn[w][s]
      + beta_k[w] * (K_k[l] \div 2) * MatrixDchi(chi_kn[w][s], l) * MatrixDchi(chi_kn[w][s], l)

\* the loop over k and n < N_k[k]
BuildMatrix ==
    /\ pc = "matrix"
    /\ u_kln' = [w \in Windows |-> [l \in Windows |->
                    [s \in DOMAIN u_kln[w][l] |->
                        IF s < N_k[w] THEN MatrixEntry(w, l, s) ELSE u_kln[w][l][s]]]]
    /\ pc' = "pmf"
    /\ UNCHANGED <<error, chi0_k, K_k, T_k, N_k, chi_kn, u_kn, k, n, chi, lines, methodVars, mcVars>>

\* pmf = pymbar.PMF(u_kln, N_k, verbose = True)
ConstructPMF ==
    /\ pc = "pmf"
    /\ pc' = "pmf_built"
    /\ UNCHANGED <<error, chi0_k, K_k, T_k, N_k, chi_kn, u_kn, u_kln, k, n, chi, lines, methodVars, mcVars>>

\* the deviation inside bias_potential(x,k)
BiasDchi(x, w) ==
    LET dchi == x - chi0_k[w]
        i == IF Abs(dchi) > 180 THEN 1 ELSE 0
    IN i * (360 - Abs(dchi)) + (1 - i) * dchi

bias_potential(x, w) ==
    beta_k[w] * (K_k[w] \div 2) * BiasDchi(x, w) * BiasDchi(x, w)

DataNext ==
    \/ OpenTorsion
    \/ ParseLine
    \/ WrapUp
    \/ WrapUpExit
    \/ WrapDown
    \/ StoreChi
    \/ EndParse
    \/ ReadEnergies
    \/ Subsample
    \/ CorrelationFails
    \/ Allocate
    \/ BuildMatrix
    \/ ConstructPMF


\* ------------------------------------------- properties of the data stage
Retained(w) == 0 .. (N_k[w] - 1)
MatrixBuilt == pc \in {"pmf", "pmf_built"}
InCanonicalRange(x) == -180 <= x /\ x < 180

\* C1: every entry u_kln[k,l,n] of a retained sample equals
\* u_kn[k,n] + bias_potential(chi_kn[k,n], l), the bias of window l taken with
\* window l's own centre, spring constant and inverse temperature
C1_EntryIsOwnBias ==
    MatrixBuilt =>
        \A w \in Windows, l \in Windows : \A s \in Retained(w) :
            u_kln[w][l][s] = u_kn[w][s] + bias_potential(chi_kn[w][s], l)

SameBias(w, l) ==
    /\ chi0_k[w] = chi0_k[l]
    /\ K_k[w] = K_k[l]
    /\ beta_k[w] = beta_k[l]

\* C2: for two windows with identical bias parameters, column l of window k's
\* rows equals column k, for every retained sample
C2_EqualParameters ==
    MatrixBuilt =>
        \A w \in Windows, l \in Windows :
            SameBias(w, l) => \A s \in Retained(w) : u_kln[w][l][s] = u_kln[w][w][s]

\* two distinct windows with the same parameters, and a retained sample whose
\* difference to the centre is wrapped
C2_Witness ==
    /\ pc = "pmf_built"
    /\ \E w \in Windows, l \in Windows :
          /\ w /= l
          /\ SameBias(w, l)
          /\ \E s \in Retained(w) :
                /\ Abs(chi_kn[w][s] - chi0_k[l]) > 180
                /\ u_kln[w][l][s] > 0

\* C3: the deviation that enters the harmonic penalty, in the matrix loop and in
\* bias_potential, has magnitude min(|x-c|, 360-|x-c|) and never exceeds 180
C3_ShortestPath ==
    MatrixBuilt =>
        \A w \in Windows, l \in Windows : \A s \in Retained(w) :
            LET x == chi_kn[w][s]
                d == Abs(x - chi0_k[l])
            IN /\ Abs(MatrixDchi(x, l)) = Min2(d, 360 - d)
               /\ Abs(MatrixDchi(x, l)) <= 180
               /\ Abs(BiasDchi(x, l)) = Min2(d, 360 - d)
               /\ Abs(BiasDchi(x, l)) <= 180

C5_EmptyWindowFails ==
    pc = "pmf_built" => \A w \in Windows : N_k[w] > 0

\* state of the method loop and of the sampler while the data are read
IdleMethods ==
    /\ methods = <<>>
    /\ mi = 0
    /\ method = <<>>
    /\ pmf = [type |-> "none", by |-> 0]
    /\ f_i_kde = [type |-> "None", by |-> 0]
    /\ spline_parameters = [unbound |-> TRUE]
    /\ yout = [tag |-> <<>>, f_i |-> [type |-> "none", by |-> 0]]
    /\ printed = <<>>
    /\ sampled = [called |-> FALSE]
    /\ band = [type |-> "none", by |-> 0]

IdleSampler ==
    /\ mc_state = "idle"
    /\ budget = 0
    /\ sample_every = 1
    /\ nproposed = 0
    /\ current = 0
    /\ proposal = [id |-> 0, from |-> 0]
    /\ chain = <<>>

Init == DataInit /\ IdleMethods /\ IdleSampler

Spec == Init /\ [][DataNext]_vars

\* the wrap loops and every other step of the script run to completion: the
\* interpreter takes the next step whenever there is one
FairSpec == Spec /\ WF_vars(DataNext)

\* ------------------------------------------------------------- method tags
\* a tag is the sequence of its characters, so that method[:2] and method[-1]
\* are what they are in the script
histogram == <<"h", "i", "s", "t", "o", "g", "r", "a", "m">>
kde == <<"k", "d", "e">>
kl == <<"k", "l">>
sumkl == <<"s", "u", "m", "k", "l">>
weighted == <<"w", "e", "i", "g", "h", "t", "e", "d">>
simple == <<"s", "i", "m", "p", "l", "e">>
Tag(prefix, d) == prefix \o <<"-", d>>

\* keys of the colors dict
colors ==
    {histogram, kde}
      \cup {Tag(p, d) : p \in {kl, sumkl, simple, weighted}, d \in {"1", "3", "5"}}

\* tags a methods list is drawn from
MethodTags ==
    {histogram, kde, Tag(kl, "1"), Tag(sumkl, "3"), Tag(simple, "3"), Tag(weighted, "5"),
     Tag(kl, "7"), Tag(simple, "x"), <<"f", "o", "o">>}

\* method[:j]
Prefix(m, j) == SubSeq(m, 1, Min2(j, Len(m)))
\* method[-1]
Last(m) == m[Len(m)]

Digits == {"0", "1", "2", "3", "4", "5", "6", "7", "8", "9"}
\* int(c) of one character; raises ValueError outside Digits
DigitValue(c) ==
    CASE c = "0" -> 0 [] c = "1" -> 1 [] c = "2" -> 2 [] c = "3" -> 3 [] c = "4" -> 4
      [] c = "5" -> 5 [] c = "6" -> 6 [] c = "7" -> 7 [] c = "8" -> 8 [] c = "9" -> 9

\* if method[:2] == 'kl' or method[:5] == 'sumkl' or method[:8] == 'weighted' or method[:6] == 'simple'
IsSplineMethod(m) ==
    \/ Prefix(m, 2) = kl
    \/ Prefix(m, 5) = sumkl
    \/ Prefix(m, 8) = weighted
    \/ Prefix(m, 6) = simple

\* the four ifs that set spline_parameters['spline_weights'], in order
SplineWeights(m) ==
    LET w1 == IF Prefix(m, 2) = kl THEN "kldivergence" ELSE "unset"
        w2 == IF Prefix(m, 5) = sumkl THEN "sumkldivergence" ELSE w1
        w3 == IF Prefix(m, 8) = weighted THEN "weightedsum" ELSE w2
        w4 == IF Prefix(m, 6) = simple THEN "simplesum" ELSE w3
    IN w4

\* number of splines
nsplines == 15

\* spline_parameters['yinit']: the kde profile if there is one, else zeros
YInit(f) == IF f.type /= "None" THEN f ELSE [type |-> "zeros", by |-> 0]

\* the dict as it stands when int(method[-1]) is evaluated
PartialSplineParameters(m, f) ==
    [spline_weights |-> SplineWeights(m), nspline |-> nsplines, yinit |-> YInit(f)]

\* the dict kept across methods, its scheme set only when it has none yet
BuildSplineParameters_stale(m, f) ==
    [spline_weights |-> IF spline_parameters = [unbound |-> TRUE]
                        THEN SplineWeights(m)
                        ELSE spline_parameters.spline_weights,
     nspline |-> nsplines, yinit |-> YInit(f), kdegree |-> DigitValue(Last(m))]

\* the dict built for spline method m when f is the saved kde profile
BuildSplineParameters(m, f) ==
    [spline_weights |-> SplineWeights(m), nspline |-> nsplines, yinit |-> YInit(f),
     kdegree |-> DigitValue(Last(m))]

\* --------------------------------------------------------------- method loop
NoProfile == [type |-> "none", by |-> 0]
Unbound == [unbound |-> TRUE]

\* state when the method loop is entered: the PMF object holds no fit yet
MethodInit ==
    /\ pc = "loop"
    /\ error = "none"
    /\ methods \in (SeqsUpTo(MethodTags, MaxMethods) \ {<<>>})
    /\ mi = 0
    /\ method = <<>>
    /\ pmf = NoProfile
    /\ f_i_kde = [type |-> "None", by |-> 0]
    /\ spline_parameters = Unbound
    /\ yout = [tag |-> <<>>, f_i |-> NoProfile]
    /\ printed = <<>>
    /\ sampled = [called |-> FALSE]
    /\ band = NoProfile
    /\ chi0_k = <<>> /\ K_k = <<>> /\ T_k = <<>> /\ N_k = <<>>
    /\ chi_kn = <<>> /\ u_kn = <<>> /\ u_kln = <<>>
    /\ k = 0 /\ n = 0 /\ chi = 0 /\ lines = <<>>

\* for method in methods: the next element
NextMethod ==
    /\ pc = "loop"
    /\ mi < Len(methods)
    /\ mi' = mi + 1
    /\ method' = methods[mi + 1]
    /\ pc' = "dispatch"
    /\ UNCHANGED <<error, methods, pmf, f_i_kde, spline_parameters, yout, printed, sampled, band, fileVars, mcVars>>

\* if method == 'histogram': generatePMF(pmf_type = 'histogram')
FitHistogram ==
    /\ pc = "dispatch"
    /\ method = histogram
    /\ pmf' = [type |-> "histogram", by |-> mi]
    /\ pc' = "report"
    /\ UNCHANGED <<error, methods, mi, method, f_i_kde, spline_parameters, yout, printed, sampled, band, fileVars, mcVars>>

\* if method == 'kde': generatePMF(pmf_type = 'kde'); f_i_kde = getPMF(xstart)['f_i']
FitKde ==
    /\ pc = "dispatch"
    /\ method = kde
    /\ pmf' = [type |-> "kde", by |-> mi]
    /\ f_i_kde' = [type |-> "kde", by |-> mi]
    /\ pc' = "report"
    /\ UNCHANGED <<error, methods, mi, method, spline_parameters, yout, printed, sampled, band, fileVars, mcVars>>

\* a spline method: spline_parameters = dict(), filled; generatePMF(pmf_type = 'spline')
FitSpline ==
    /\ pc = "dispatch"
    /\ IsSplineMethod(method)
    /\ Last(method) \in Digits
    /\ spline_parameters' = BuildSplineParameters(method, f_i_kde)
    /\ pmf' = [type |-> "spline", by |-> mi]
    /\ pc' = "report"
    /\ UNCHANGED <<error, methods, mi, method, f_i_kde, yout, printed, sampled, band, fileVars, mcVars>>

\* int(method[-1]) raises ValueError
DegreeError ==
    /\ pc = "dispatch"
    /\ IsSplineMethod(method)
    /\ Last(method) \notin Digits
    /\ spline_parameters' = PartialSplineParameters(method, f_i_kde)
    /\ pc' = "aborted"
    /\ error' = "ValueError"
    /\ UNCHANGED <<methods, mi, method, pmf, f_i_kde, yout, printed, sampled, band, fileVars, mcVars>>

\* none of the three ifs is taken
NoFit ==
    /\ pc = "dispatch"
    /\ method /= histogram
    /\ method /= kde
    /\ ~IsSplineMethod(method)
    /\ pc' = "report"
    /\ UNCHANGED <<error, methods, mi, method, pmf, f_i_kde, spline_parameters, yout, printed, sampled, band, fileVars, mcVars>>

\* generatePMF (or, for kde, the getPMF that follows it) raises: no handler
FitFails ==
    /\ pc = "dispatch"
    /\ \/ method = histogram
       \/ method = kde
       \/ IsSplineMethod(method) /\ Last(method) \in Digits
    /\ spline_parameters' = IF IsSplineMethod(method)
                            THEN BuildSplineParameters(method, f_i_kde)
                            ELSE spline_parameters
    /\ pc' = "aborted"
    /\ error' = "FitError"
    /\ UNCHANGED <<methods, mi, method, pmf, f_i_kde, yout, printed, sampled, band, fileVars, mcVars>>

\* yout = dict(); the table of getPMF(bin_center_i) is printed under the tag;
\* yout[method] = getPMF(xplot)['f_i']; plt.errorbar(..., fmt=colors[method])
Report ==
    /\ pc = "report"
    /\ method \in colors
    /\ printed' = Append(printed, [tag |-> method, f_i |-> pmf])
    /\ yout' = [tag |-> method, f_i |-> pmf]
    /\ pc' = "loop"
    /\ UNCHANGED <<error, methods, mi, method, pmf, f_i_kde, spline_parameters, sampled, band, fileVars, mcVars>>

\* the same, and colors[method] raises KeyError
ReportKeyError ==
    /\ pc = "report"
    /\ method \notin colors
    /\ printed' = Append(printed, [tag |-> method, f_i |-> pmf])
    /\ yout' = [tag |-> method, f_i |-> pmf]
    /\ pc' = "aborted"
    /\ error' = "KeyError"
    /\ UNCHANGED <<methods, mi, method, pmf, f_i_kde, spline_parameters, sampled, band, fileVars, mcVars>>

\* getPMF raises: no handler
QueryFails ==
    /\ pc = "report"
    /\ yout' = [tag |-> <<>>, f_i |-> NoProfile]
    /\ pc' = "aborted"
    /\ error' = "QueryError"
    /\ UNCHANGED <<methods, mi, method, pmf, f_i_kde, spline_parameters, printed, sampled, band, fileVars, mcVars>>

\* the loop is over: legend, savefig, the times
AfterLoop ==
    /\ pc = "loop"
    /\ mi = Len(methods)
    /\ pc' = "call_sampler"
    /\ UNCHANGED <<error, methods, mi, method, pmf, f_i_kde, spline_parameters, yout, printed, sampled, band, fileVars, mcVars>>

\* pmf.SampleDistribution(chi_n, pmf_type = 'spline', spline_parameters = spline_parameters, ...)
CallSampler ==
    /\ pc = "call_sampler"
    /\ spline_parameters /= Unbound
    /\ sampled' = [called |-> TRUE, spline_parameters |-> spline_parameters, pmf |-> pmf]
    /\ pc' = "sampling"
    /\ UNCHANGED <<error, methods, mi, method, pmf, f_i_kde, spline_parameters, yout, printed, band, fileVars, mcVars>>

\* no spline method ran: the name spline_parameters is not bound
SamplerNameError ==
    /\ pc = "call_sampler"
    /\ spline_parameters = Unbound
    /\ pc' = "aborted"
    /\ error' = "NameError"
    /\ UNCHANGED <<methods, mi, method, pmf, f_i_kde, spline_parameters, yout, printed, sampled, band, fileVars, mcVars>>

\* SampleDistribution returns csamples, logposteriors, bspline
SamplerReturns ==
    /\ pc = "sampling"
    /\ pc' = "plot"
    /\ UNCHANGED <<error, methods, mi, method, pmf, f_i_kde, spline_parameters, yout, printed, sampled, band, fileVars, mcVars>>

\* SampleDistribution raises
SamplerFails ==
    /\ pc = "sampling"
    /\ pc' = "aborted"
    /\ error' = "SamplerError"
    /\ UNCHANGED <<methods, mi, method, pmf, f_i_kde, spline_parameters, yout, printed, sampled, band, fileVars, mcVars>>

\* plt.plot(xplot,yout[method],...); fill_between(..., ylows-ymedians+yout[method], ...)
PlotBand ==
    /\ pc = "plot"
    /\ yout.tag = method
    /\ band' = yout.f_i
    /\ pc' = "done"
    /\ UNCHANGED <<error, methods, mi, method, pmf, f_i_kde, spline_parameters, yout, printed, sampled, fileVars, mcVars>>

MethodNext ==
    \/ NextMethod
    \/ FitHistogram
    \/ FitKde
    \/ FitSpline
    \/ DegreeError
    \/ NoFit
    \/ FitFails
    \/ Report
    \/ ReportKeyError
    \/ QueryFails
    \/ AfterLoop
    \/ CallSampler
    \/ SamplerNameError
    \/ SamplerReturns
    \/ SamplerFails
    \/ PlotBand

MethodLoopInit == MethodInit /\ IdleSampler

MethodSpec == MethodLoopInit /\ [][MethodNext]_vars

\* ------------------------------------------ properties of the method loop
Recognized(m) == m = histogram \/ m = kde \/ IsSplineMethod(m)

\* C6: a tag that names no recognized representation or divergence-weight scheme
\* is raised as an invalid-configuration error and never downgraded to a partial
\* result: in particular, no profile that an earlier method produced is queried
\* and reported under that tag
C6_UnrecognizedTagRaises ==
    \A i \in DOMAIN printed :
        ~Recognized(printed[i].tag) => printed[i].f_i = NoProfile

\* C7: when the fit or the query of one method fails, every later method of the
\* list is still attempted: a run ended by such a failure has taken every method
C7_MethodIsolation ==
    (pc = "aborted" /\ error \in {"FitError", "QueryError"}) => mi = Len(methods)

SplineIndices == {i \in DOMAIN methods : IsSplineMethod(methods[i])}
LastSpline == SetMax(SplineIndices)
KdeBefore(i) == {j \in DOMAIN methods : j < i /\ methods[j] = kde}

\* the divergence-weight scheme a tag names
ExpectedScheme(m) ==
    CASE Prefix(m, 2) = kl -> "kldivergence"
      [] Prefix(m, 5) = sumkl -> "sumkldivergence"
      [] Prefix(m, 6) = simple -> "simplesum"
      [] Prefix(m, 8) = weighted -> "weightedsum"

\* C9: the spline_parameters passed to the sampler are exactly those of the last
\* spline method of the list: its scheme, its degree, and as initial guess the
\* kde profile saved before it ran (zeros if there was none)
C9_LastSplineParameters ==
    sampled.called =>
        /\ SplineIndices /= {}
        /\ sampled.spline_parameters =
              [spline_weights |-> ExpectedScheme(methods[LastSpline]),
               nspline |-> nsplines,
               yinit |-> IF KdeBefore(LastSpline) = {}
                         THEN [type |-> "zeros", by |-> 0]
                         ELSE [type |-> "kde", by |-> SetMax(KdeBefore(LastSpline))],
               kdegree |-> DigitValue(Last(methods[LastSpline]))]

\* the sampler is called after two spline methods of different schemes, with a
\* kde between them
C9_Witness ==
    /\ sampled.called
    /\ Len(methods) = 3
    /\ IsSplineMethod(methods[1])
    /\ methods[2] = kde
    /\ IsSplineMethod(methods[3])
    /\ SplineWeights(methods[1]) /= SplineWeights(methods[3])
    /\ Last(methods[1]) /= Last(methods[3])

\* C10: when the sampler is called the estimator holds the fit of the last spline
\* method, whose spline_parameters the sampler gets, and the credible band is
\* drawn around the profile of that fit
C10_BandOnSampledFit ==
    /\ sampled.called => sampled.pmf = [type |-> "spline", by |-> LastSpline]
    /\ pc = "done" => band = [type |-> "spline", by |-> LastSpline]

\* ------------------------------------------------------- posterior sampler
\* PMF.SampleDistribution: initializing -> proposing -> accept/reject ->
\* recording -> (loop until the iteration budget is exhausted) -> terminal

\* thinning intervals the chain is run with
SampleEvery == {1, 2}

\* the loop test off by one
BudgetExhausted_late(i) == i > budget

\* the loop test of the chain: the budget is used up after i proposals
BudgetExhausted(i) == i >= budget

\* the sampler is called with mc_parameters["niterations"] and starts from the fit
SamplerInit ==
    /\ mc_state = "initializing"
    /\ budget = niterations
    /\ sample_every \in SampleEvery
    /\ nproposed = 0
    /\ current = 0
    /\ proposal = [id |-> 0, from |-> 0]
    /\ chain = <<>>
    /\ pc = "sampling"
    /\ error = "none"
    /\ chi0_k = <<>> /\ K_k = <<>> /\ T_k = <<>> /\ N_k = <<>>
    /\ chi_kn = <<>> /\ u_kn = <<>> /\ u_kln = <<>>
    /\ k = 0 /\ n = 0 /\ chi = 0 /\ lines = <<>>

SamplerStart ==
    /\ mc_state = "initializing"
    /\ mc_state' = IF BudgetExhausted(nproposed) THEN "terminal" ELSE "proposing"
    /\ UNCHANGED <<budget, sample_every, nproposed, current, proposal, chain, dataVars, methodVars>>

\* perturb the most recently accepted coefficient vector
Propose ==
    /\ mc_state = "proposing"
    /\ proposal' = [id |-> nproposed + 1, from |-> current]
    /\ nproposed' = nproposed + 1
    /\ mc_state' = "deciding"
    /\ UNCHANGED <<budget, sample_every, current, chain, dataVars, methodVars>>

\* Metropolis rule: the log-posterior is higher, or the draw falls under exp(delta)
Accept ==
    /\ mc_state = "deciding"
    /\ current' = proposal.id
    /\ mc_state' = "recording"
    /\ UNCHANGED <<budget, sample_every, nproposed, proposal, chain, dataVars, methodVars>>

Reject ==
    /\ mc_state = "deciding"
    /\ mc_state' = "recording"
    /\ UNCHANGED <<budget, sample_every, nproposed, current, proposal, chain, dataVars, methodVars>>

\* every sample_every-th state is recorded; then the budget is tested
Record ==
    /\ mc_state = "recording"
    /\ chain' = IF nproposed % sample_every = 0 THEN Append(chain, current) ELSE chain
    /\ mc_state' = IF BudgetExhausted(nproposed) THEN "terminal" ELSE "proposing"
    /\ UNCHANGED <<budget, sample_every, nproposed, current, proposal, dataVars, methodVars>>

SamplerNext ==
    \/ SamplerStart
    \/ Propose
    \/ Accept
    \/ Reject
    \/ Record

SamplerRunInit == SamplerInit /\ IdleMethods

\* the chain is a blocking loop: it takes its next step whenever there is one
SamplerSpec == SamplerRunInit /\ [][SamplerNext]_vars /\ WF_vars(SamplerNext)

\* ---------------------------------------------- properties of the sampler
\* C8: the chain started with budget niterations reaches its terminal state, after
\* exactly niterations proposals whatever was accepted or rejected; each proposal
\* perturbs the most recently accepted state; no proposal is made once the budget
\* is exhausted
C8_BudgetedChain ==
    /\ <>(mc_state = "terminal")
    /\ [](mc_state = "terminal" => nproposed = niterations)
    /\ [](mc_state = "deciding" => proposal.from = current)
    /\ [][nproposed' /= nproposed => nproposed < niterations]_vars

\* a finished chain in which some proposals were accepted and the last rejected
C8_Witness ==
    /\ mc_state = "terminal"
    /\ nproposed = niterations
    /\ current /= 0
    /\ current /= nproposed

====
